---- MODULE Spec2Model ----
(***************************************************************************)
(* numerizer: Parse(s) turns an English cardinal-number phrase, optionally *)
(* split into dollars and cents, into an integer count of cents.           *)
(*                                                                         *)
(* The module follows src/numerizer.go: preprocess and strings.Fields cut  *)
(* the input into words, newItem types each word, and the loop of Parse    *)
(* runs the chain of state functions (parse, parseZero, parseSingle, ...)  *)
(* over the items until one of them returns nil.                           *)
(*                                                                         *)
(* Strings are sequences of one-character strings.  Go's int is 64 bits    *)
(* wide here (the tests hold the constant 500000000000 in an int), which   *)
(* is more than TLC's integers hold, so an int is written as the sequence  *)
(* of its base-256 digits, least significant first, without leading zero   *)
(* digits: <<>> is 0, <<232, 3>> is 1000.                                  *)
(***************************************************************************)
EXTENDS Integers, Sequences, FiniteSets, TLC

VARIABLES
    s,      \* the argument of Parse
    p,      \* the parser struct (meaningful once newParser has run)
    state,  \* the loop variable of Parse: the state function to call next
    ret,    \* what Parse returned
    calls   \* how many times the loop of Parse has called a state function

vars == <<s, p, state, ret, calls>>

----------------------------------------------------------------------------
(* Integer arithmetic on base-256 digit sequences.                         *)

\* Number of bytes of a Go int on the 64-bit platforms the tests need.
IntBytes == 8

RECURSIVE Norm(_)
\* Drop the leading (most significant) zero digits.
Norm(a) ==
    IF a = <<>> THEN <<>>
    ELSE IF a[Len(a)] = 0 THEN Norm(SubSeq(a, 1, Len(a) - 1))
    ELSE a

RECURSIVE FromNat(_)
\* The digit sequence of a natural number small enough for TLC.
FromNat(n) == IF n = 0 THEN <<>> ELSE <<n % 256>> \o FromNat(n \div 256)

RECURSIVE AddCarry(_, _, _)
AddCarry(a, b, c) ==
    IF a = <<>> /\ b = <<>> THEN (IF c = 0 THEN <<>> ELSE <<c>>)
    ELSE LET x == IF a = <<>> THEN 0 ELSE Head(a)
             y == IF b = <<>> THEN 0 ELSE Head(b)
             t == x + y + c
         IN  <<t % 256>> \o AddCarry(IF a = <<>> THEN <<>> ELSE Tail(a),
                                     IF b = <<>> THEN <<>> ELSE Tail(b),
                                     t \div 256)

\* a + b, exact.
Plus(a, b) == Norm(AddCarry(a, b, 0))

RECURSIVE MulDigit(_, _, _)
\* a * d + c for one digit d, exact.
MulDigit(a, d, c) ==
    IF a = <<>> THEN FromNat(c)
    ELSE LET t == Head(a) * d + c
         IN  <<t % 256>> \o MulDigit(Tail(a), d, t \div 256)

RECURSIVE Times(_, _)
\* a * b, exact.
Times(a, b) ==
    IF a = <<>> \/ b = <<>> THEN <<>>
    ELSE Plus(Norm(MulDigit(a, Head(b), 0)), Norm(<<0>> \o Times(a, Tail(b))))

\* The value an int variable holds after x is stored in it: x modulo
\* 2^(8*IntBytes).  A digit sequence of IntBytes digits whose top digit is
\* 128 or more is a negative int (two's complement).
AsInt(x) == Norm(SubSeq(x, 1, IF Len(x) < IntBytes THEN Len(x) ELSE IntBytes))

\* x, read as an exact natural number, is a value a non-negative int holds.
FitsInt(x) == Len(x) < IntBytes \/ (Len(x) = IntBytes /\ x[IntBytes] < 128)

----------------------------------------------------------------------------
(* Strings: strings.ToLower, strings.Replace, strings.Fields, regexp.      *)

UpperCase == <<"A","B","C","D","E","F","G","H","I","J","K","L","M",
               "N","O","P","Q","R","S","T","U","V","W","X","Y","Z">>
LowerCase == <<"a","b","c","d","e","f","g","h","i","j","k","l","m",
               "n","o","p","q","r","s","t","u","v","w","x","y","z">>

ToLowerChar(c) ==
    IF \E i \in DOMAIN UpperCase : UpperCase[i] = c
    THEN LowerCase[CHOOSE i \in DOMAIN UpperCase : UpperCase[i] = c]
    ELSE c

\* strings.ToLower
ToLower(str) == [i \in DOMAIN str |-> ToLowerChar(str[i])]

\* strings.Replace(str, old, new, -1) for a one-character old and a new of
\* at most one character.
Replace(str, old, new) ==
    IF new = <<>>
    THEN SelectSeq(str, LAMBDA c : c # old)
    ELSE [i \in DOMAIN str |-> IF str[i] = old THEN new[1] ELSE str[i]]

\* The positions of str where a word starts: a non-space character that
\* begins str or follows a space.
WordStarts(str) ==
    {i \in DOMAIN str : str[i] # " " /\ (i = 1 \/ str[i - 1] = " ")}

\* The position where the word starting at i ends.
WordEnd(str, i) ==
    CHOOSE j \in i..Len(str) :
        /\ \A k \in i..j : str[k] # " "
        /\ (j = Len(str) \/ str[j + 1] = " ")

\* strings.Fields: the maximal runs of non-space characters, in order.
Fields(str) ==
    LET starts == WordStarts(str)
        nth(n) == CHOOSE i \in starts : Cardinality({j \in starts : j < i}) = n - 1
    IN  [n \in 1..Cardinality(starts) |-> SubSeq(str, nth(n), WordEnd(str, nth(n)))]

\* A literal occurs somewhere in str.
Contains(str, lit) ==
    \E i \in 1..(Len(str) - Len(lit) + 1) : SubSeq(str, i, i + Len(lit) - 1) = lit

\* Words of the vocabulary, as the character sequences Parse receives.
w_zero == <<"z","e","r","o">>
w_hundred == <<"h","u","n","d","r","e","d">>
w_dollars == <<"d","o","l","l","a","r","s">>
w_dollar == <<"d","o","l","l","a","r">>
w_cents == <<"c","e","n","t","s">>
w_cent == <<"c","e","n","t">>
w_and == <<"a","n","d">>
w_trillion == <<"t","r","i","l","l","i","o","n">>
w_one == <<"o","n","e">>
w_two == <<"t","w","o">>
w_three == <<"t","h","r","e","e">>
w_four == <<"f","o","u","r">>
w_five == <<"f","i","v","e">>
w_six == <<"s","i","x">>
w_seven == <<"s","e","v","e","n">>
w_eight == <<"e","i","g","h","t">>
w_nine == <<"n","i","n","e">>
w_ten == <<"t","e","n">>
w_eleven == <<"e","l","e","v","e","n">>
w_twelve == <<"t","w","e","l","v","e">>
w_thirteen == <<"t","h","i","r","t","e","e","n">>
w_fourteen == <<"f","o","u","r","t","e","e","n">>
w_fifteen == <<"f","i","f","t","e","e","n">>
w_sixteen == <<"s","i","x","t","e","e","n">>
w_seventeen == <<"s","e","v","e","n","t","e","e","n">>
w_eighteen == <<"e","i","g","h","t","e","e","n">>
w_nineteen == <<"n","i","n","e","t","e","e","n">>
w_twenty == <<"t","w","e","n","t","y">>
w_thirty == <<"t","h","i","r","t","y">>
w_forty == <<"f","o","r","t","y">>
w_fifty == <<"f","i","f","t","y">>
w_sixty == <<"s","i","x","t","y">>
w_seventy == <<"s","e","v","e","n","t","y">>
w_eighty == <<"e","i","g","h","t","y">>
w_ninety == <<"n","i","n","e","t","y">>
w_thousand == <<"t","h","o","u","s","a","n","d">>
w_million == <<"m","i","l","l","i","o","n">>
w_billion == <<"b","i","l","l","i","o","n">>

\* var singleNumbers (numerizer.go:10-20)
singleNumbers ==
       (w_one :> 1)
    @@ (w_two :> 2)
    @@ (w_three :> 3)
    @@ (w_four :> 4)
    @@ (w_five :> 5)
    @@ (w_six :> 6)
    @@ (w_seven :> 7)
    @@ (w_eight :> 8)
    @@ (w_nine :> 9)

\* var directNumbers (numerizer.go:22-33)
directNumbers ==
       (w_ten :> 10)
    @@ (w_eleven :> 11)
    @@ (w_twelve :> 12)
    @@ (w_thirteen :> 13)
    @@ (w_fourteen :> 14)
    @@ (w_fifteen :> 15)
    @@ (w_sixteen :> 16)
    @@ (w_seventeen :> 17)
    @@ (w_eighteen :> 18)
    @@ (w_nineteen :> 19)

\* var tenPrefixNumbers (numerizer.go:35-44)
tenPrefixNumbers ==
       (w_twenty :> 20)
    @@ (w_thirty :> 30)
    @@ (w_forty :> 40)
    @@ (w_fifty :> 50)
    @@ (w_sixty :> 60)
    @@ (w_seventy :> 70)
    @@ (w_eighty :> 80)
    @@ (w_ninety :> 90)

\* var largeNumbers (numerizer.go:46-50)
largeNumbers ==
       (w_thousand :> 1000)
    @@ (w_million :> 1000000)
    @@ (w_billion :> 1000000000)
----------------------------------------------------------------------------
(* Items.                                                                  *)

\* item{}: the zero value, whose typ is itemError, the first itemType.
NoItem == [typ |-> "itemError", key |-> <<>>, val |-> 0]

\* item{typ: itemEOL}
EOLItem == [typ |-> "itemEOL", key |-> <<>>, val |-> 0]

\* dollarRegex `dollars?.?` and centsRegex `cents?.?` are unanchored and
\* their two last atoms are optional: a word matches when the literal
\* occurs in it.
dollarRegex(str) == Contains(str, w_dollar)
centsRegex(str) == Contains(str, w_cent)

newItemFromMap(str) ==
    IF str \in DOMAIN singleNumbers
    THEN [typ |-> "itemSingle", key |-> str, val |-> singleNumbers[str]]
    ELSE IF str \in DOMAIN directNumbers
    THEN [typ |-> "itemDirect", key |-> str, val |-> directNumbers[str]]
    ELSE IF str \in DOMAIN tenPrefixNumbers
    THEN [typ |-> "itemTenPrefix", key |-> str, val |-> tenPrefixNumbers[str]]
    ELSE IF str \in DOMAIN largeNumbers
    THEN [typ |-> "itemLarge", key |-> str, val |-> largeNumbers[str]]
    ELSE [typ |-> "itemDefault", key |-> str, val |-> 0]

newItem(str) ==
    IF str = w_zero THEN [typ |-> "itemZero", key |-> str, val |-> 0]
    ELSE IF str = w_hundred THEN [typ |-> "itemHundred", key |-> str, val |-> 100]
    ELSE IF dollarRegex(str) THEN [typ |-> "itemDollars", key |-> str, val |-> 0]
    ELSE IF centsRegex(str) THEN [typ |-> "itemCents", key |-> str, val |-> 0]
    ELSE newItemFromMap(str)

----------------------------------------------------------------------------
(* The parser.                                                             *)

\* A nil error.
NoErr == [kind |-> "nil", key |-> <<>>, after |-> <<>>]

\* The parser before newParser has filled it.
NoParser ==
    [items |-> <<>>, pos |-> 0, prev |-> <<>>, sum |-> <<>>, dollars |-> <<>>,
     cents |-> <<>>, dollarsDone |-> FALSE, err |-> NoErr]

\* preprocess with the hyphen left in place.
preprocess_keepHyphen(str) ==
    LET s1 == ToLower(str)
        s2 == Replace(s1, ",", <<>>)
    IN  Replace(s2, ".", <<>>)

preprocess(str) ==
    LET s1 == ToLower(str)
        s2 == Replace(s1, ",", <<>>)
        s3 == Replace(s2, ".", <<>>)
    IN  Replace(s3, "-", <<" ">>)

newParser(str) ==
    LET parts == Fields(preprocess(str))
    IN  [NoParser EXCEPT !.items = [k \in DOMAIN parts |-> newItem(parts[k])]]

\* pos counts from 0, items from 1.
peek(q) == IF q.pos >= Len(q.items) THEN EOLItem ELSE q.items[q.pos + 1]

\* next() without p.pos++: the cursor stays on the item it returned.
next_stay(q) == q

\* The parser after next(); the item next() returns is peek before it.
next(q) == [q EXCEPT !.pos = @ + 1]

\* A state function returns the next state function and leaves the parser changed.
To(fn, q) == [fn |-> fn, p |-> q]

parseError(q, i, after) ==
    To("nil",
       [q EXCEPT !.err =
           IF i.typ = "itemError"
           THEN [kind |-> "bad number", key |-> i.key, after |-> <<>>]
           ELSE IF after.typ = "itemError"
           THEN [kind |-> "unexpected start", key |-> i.key, after |-> <<>>]
           ELSE [kind |-> "unexpected after", key |-> i.key, after |-> after.key]])

parse(q) ==
    LET i == peek(q)
    IN  CASE i.typ = "itemZero" -> To("parseZero", q)
          [] i.typ = "itemSingle" -> To("parseSingle", q)
          [] i.typ = "itemDirect" -> To("parseDirect", q)
          [] i.typ = "itemTenPrefix" -> To("parseTenPrefix", q)
          [] i.typ = "itemDefault" -> To("parseDefault", q)
          [] OTHER -> parseError(q, i, NoItem)

parseZero(q) ==
    LET i == peek(q)
        q1 == next(q)
        nxt == peek(q1)
    IN  CASE nxt.typ = "itemDollars" -> To("parseDollars", q1)
          [] nxt.typ = "itemCents" -> To("parseCents", q1)
          [] nxt.typ = "itemEOL" -> To("nil", q1)
          [] OTHER -> parseError(q1, nxt, i)

parseSingle(q) ==
    LET i == peek(q)
        q1 == next(q)
        nxt == peek(q1)
        v == FromNat(i.val)
    IN  CASE nxt.typ = "itemHundred" ->
               To("parseHundred", [q1 EXCEPT !.sum = Plus(q1.sum, q1.prev), !.prev = v])
          [] nxt.typ = "itemLarge" -> To("parseLarge", [q1 EXCEPT !.prev = v])
          [] nxt.typ = "itemDollars" ->
               To("parseDollars", [q1 EXCEPT !.sum = Plus(q1.sum, Plus(q1.prev, v))])
          [] nxt.typ = "itemCents" ->
               To("parseCents", [q1 EXCEPT !.sum = Plus(q1.sum, Plus(q1.prev, v))])
          [] nxt.typ = "itemDefault" -> To("parseDefault", q1)
          [] nxt.typ = "itemEOL" -> To("nil", q1)
          [] OTHER -> parseError(q1, nxt, i)

parseDirect(q) ==
    LET i == peek(q)
        q1 == next(q)
        nxt == peek(q1)
        v == FromNat(i.val)
    IN  CASE nxt.typ = "itemHundred" -> To("parseLarge", [q1 EXCEPT !.prev = v])
          [] nxt.typ = "itemLarge" -> To("parseLarge", [q1 EXCEPT !.prev = v])
          [] nxt.typ = "itemDollars" ->
               To("parseDollars", [q1 EXCEPT !.sum = Plus(q1.sum, Plus(q1.prev, v))])
          [] nxt.typ = "itemCents" ->
               To("parseCents", [q1 EXCEPT !.sum = Plus(q1.sum, Plus(q1.prev, v))])
          [] nxt.typ = "itemDefault" -> To("parseDefault", q1)
          [] OTHER -> parseError(q1, nxt, i)

parseTenPrefix(q) ==
    LET i == peek(q)
        q1 == next(q)
        nxt == peek(q1)
        v == FromNat(i.val)
        \* case itemSingle: prev += i.val + next.val, then next()
        q2 == next([q1 EXCEPT !.prev = Plus(q1.prev, Plus(v, FromNat(nxt.val)))])
        ahead == peek(q2)
    IN  CASE nxt.typ = "itemSingle" ->
               (CASE ahead.typ = "itemHundred" ->
                       To("parseHundred",
                          [q2 EXCEPT !.sum = Plus(q2.sum, Times(q2.prev, FromNat(ahead.val))),
                                     !.prev = <<>>])
                  [] ahead.typ = "itemLarge" -> To("parseLarge", q2)
                  [] ahead.typ = "itemDollars" ->
                       To("parseDollars", [q2 EXCEPT !.sum = Plus(q2.sum, q2.prev)])
                  [] ahead.typ = "itemCents" ->
                       To("parseCents", [q2 EXCEPT !.sum = Plus(q2.sum, q2.prev)])
                  [] ahead.typ = "itemDefault" ->
                       To("parseDefault", [q2 EXCEPT !.sum = Plus(q2.sum, q2.prev)])
                  [] OTHER -> To("parseSingle", q2))
          [] nxt.typ = "itemLarge" -> To("parseLarge", [q1 EXCEPT !.prev = v])
          [] nxt.typ = "itemDefault" -> To("parseDefault", q1)
          [] nxt.typ = "itemDollars" ->
               To("parseDollars", [q1 EXCEPT !.sum = Plus(q1.sum, Plus(q1.prev, v))])
          [] nxt.typ = "itemCents" ->
               To("parseCents", [q1 EXCEPT !.sum = Plus(q1.sum, Plus(q1.prev, v))])
          [] OTHER -> parseError(q1, nxt, i)

parseHundred(q) ==
    LET i == peek(q)
        q1 == [next(q) EXCEPT !.prev = Times(q.prev, FromNat(i.val))]
        nxt == peek(q1)
    IN  CASE nxt.typ = "itemSingle" -> To("parseSingle", q1)
          [] nxt.typ = "itemDirect" -> To("parseDirect", q1)
          [] nxt.typ = "itemTenPrefix" -> To("parseTenPrefix", q1)
          [] nxt.typ = "itemLarge" -> To("parseLarge", q1)
          [] nxt.typ = "itemDollars" ->
               To("parseDollars", [q1 EXCEPT !.sum = Plus(q1.sum, q1.prev)])
          [] nxt.typ = "itemDefault" -> To("parseDefault", q1)
          [] OTHER -> parseError(q1, nxt, i)

parseLarge(q) ==
    LET i == peek(q)
        q1 == [next(q) EXCEPT !.sum = Plus(q.sum, Times(q.prev, FromNat(i.val))),
                              !.prev = <<>>]
        nxt == peek(q1)
    IN  CASE nxt.typ = "itemSingle" -> To("parseSingle", q1)
          [] nxt.typ = "itemDirect" -> To("parseDirect", q1)
          [] nxt.typ = "itemTenPrefix" -> To("parseTenPrefix", q1)
          [] nxt.typ = "itemDollars" -> To("parseDollars", q1)
          [] nxt.typ = "itemDefault" -> To("parseDefault", q1)
          [] OTHER -> parseError(q1, nxt, i)

\* parseDollars without the reset of sum.
parseDollars_keepSum(q) ==
    LET i == peek(q)
        q1 == [next(q) EXCEPT !.dollarsDone = TRUE, !.dollars = q.sum, !.prev = <<>>]
        nxt == peek(q1)
    IN  CASE nxt.typ = "itemSingle" -> To("parseSingle", q1)
          [] nxt.typ = "itemDirect" -> To("parseDirect", q1)
          [] nxt.typ = "itemTenPrefix" -> To("parseTenPrefix", q1)
          [] nxt.typ = "itemDefault" -> To("parseDefault", q1)
          [] nxt.typ = "itemEOL" -> To("nil", q1)
          [] OTHER -> parseError(q1, nxt, i)

parseDollars(q) ==
    LET i == peek(q)
        q1 == [next(q) EXCEPT !.dollarsDone = TRUE, !.dollars = q.sum,
                              !.sum = <<>>, !.prev = <<>>]
        nxt == peek(q1)
    IN  CASE nxt.typ = "itemSingle" -> To("parseSingle", q1)
          [] nxt.typ = "itemDirect" -> To("parseDirect", q1)
          [] nxt.typ = "itemTenPrefix" -> To("parseTenPrefix", q1)
          [] nxt.typ = "itemDefault" -> To("parseDefault", q1)
          [] nxt.typ = "itemEOL" -> To("nil", q1)
          [] OTHER -> parseError(q1, nxt, i)

parseCents(q) ==
    To("nil", [q EXCEPT !.cents = q.sum, !.sum = <<>>, !.prev = <<>>])

\* parseDefault forgetting the pending group: prev is cleared with the word.
parseDefault_dropPrev(q) ==
    LET i == peek(q)
        q1 == [next(q) EXCEPT !.prev = <<>>]
        nxt == peek(q1)
    IN  CASE nxt.typ = "itemZero" -> To("parseZero", q1)
          [] nxt.typ = "itemSingle" -> To("parseSingle", q1)
          [] nxt.typ = "itemDirect" -> To("parseDirect", q1)
          [] nxt.typ = "itemTenPrefix" -> To("parseTenPrefix", q1)
          [] nxt.typ = "itemHundred" -> To("parseHundred", q1)
          [] nxt.typ = "itemDefault" -> To("parseDefault", q1)
          [] nxt.typ = "itemDollars" -> To("parseDollars", q1)
          [] nxt.typ = "itemCents" -> To("parseCents", q1)
          [] nxt.typ = "itemEOL" ->
               To("nil", IF q1.dollarsDone THEN [q1 EXCEPT !.cents = q1.sum] ELSE q1)
          [] OTHER -> parseError(q1, nxt, i)

\* parseDefault storing the cents at the end of the input whether or not a
\* dollars marker was seen.
parseDefault_alwaysCents(q) ==
    LET i == peek(q)
        q1 == next(q)
        nxt == peek(q1)
    IN  CASE nxt.typ = "itemZero" -> To("parseZero", q1)
          [] nxt.typ = "itemSingle" -> To("parseSingle", q1)
          [] nxt.typ = "itemDirect" -> To("parseDirect", q1)
          [] nxt.typ = "itemTenPrefix" -> To("parseTenPrefix", q1)
          [] nxt.typ = "itemHundred" -> To("parseHundred", q1)
          [] nxt.typ = "itemDefault" -> To("parseDefault", q1)
          [] nxt.typ = "itemDollars" -> To("parseDollars", q1)
          [] nxt.typ = "itemCents" -> To("parseCents", q1)
          [] nxt.typ = "itemEOL" -> To("nil", [q1 EXCEPT !.cents = q1.sum])
          [] OTHER -> parseError(q1, nxt, i)

parseDefault(q) ==
    LET i == peek(q)
        q1 == next(q)
        nxt == peek(q1)
    IN  CASE nxt.typ = "itemZero" -> To("parseZero", q1)
          [] nxt.typ = "itemSingle" -> To("parseSingle", q1)
          [] nxt.typ = "itemDirect" -> To("parseDirect", q1)
          [] nxt.typ = "itemTenPrefix" -> To("parseTenPrefix", q1)
          [] nxt.typ = "itemHundred" -> To("parseHundred", q1)
          [] nxt.typ = "itemDefault" -> To("parseDefault", q1)
          [] nxt.typ = "itemDollars" -> To("parseDollars", q1)
          [] nxt.typ = "itemCents" -> To("parseCents", q1)
          [] nxt.typ = "itemEOL" ->
               To("nil", IF q1.dollarsDone THEN [q1 EXCEPT !.cents = q1.sum] ELSE q1)
          [] OTHER -> parseError(q1, nxt, i)

\* The int fields of the parser hold IntBytes bytes each: what a state
\* function computed is stored modulo 2^64.  (The state functions only add
\* and multiply, so reducing once per call equals reducing per statement.)
Store(q) ==
    [q EXCEPT !.prev = AsInt(@), !.sum = AsInt(@), !.dollars = AsInt(@), !.cents = AsInt(@)]

\* state(p): the call of the state function named fn.
Call(fn, q) ==
    CASE fn = "parse" -> parse(q)
      [] fn = "parseZero" -> parseZero(q)
      [] fn = "parseSingle" -> parseSingle(q)
      [] fn = "parseDirect" -> parseDirect(q)
      [] fn = "parseTenPrefix" -> parseTenPrefix(q)
      [] fn = "parseHundred" -> parseHundred(q)
      [] fn = "parseLarge" -> parseLarge(q)
      [] fn = "parseDollars" -> parseDollars(q)
      [] fn = "parseCents" -> parseCents(q)
      [] fn = "parseDefault" -> parseDefault(q)

\* Return with the amount computed although the parser holds an error.
Return_partial(q) ==
    [value |-> AsInt(Plus(AsInt(Times(q.dollars, FromNat(100))), q.cents)), err |-> q.err]

\* The return statements of Parse, once the loop has ended.
Return(q) ==
    IF q.err # NoErr
    THEN [value |-> <<>>, err |-> q.err]
    ELSE [value |-> AsInt(Plus(AsInt(Times(q.dollars, FromNat(100))), q.cents)), err |-> NoErr]

RECURSIVE Loop(_, _)
\* for state := parse; state != nil; { state = state(p) }
Loop(fn, q) ==
    IF fn = "nil" THEN q
    ELSE LET r == Call(fn, q) IN Loop(r.fn, Store(r.p))

\* Parse as a function of its argument.
Parse(str) == Return(Loop("parse", newParser(str)))

----------------------------------------------------------------------------
(* The inputs Parse is run on.                                             *)

\* Longest input, in words, of the family of all word sequences.
MaxLen == 4

RECURSIVE Join(_)
\* The words of ws with one space between neighbours.
Join(ws) ==
    IF ws = <<>> THEN <<>>
    ELSE IF Len(ws) = 1 THEN ws[1]
    ELSE ws[1] \o <<" ">> \o Join(Tail(ws))

\* All sequences of at most n elements of S.
SeqsUpTo(S, n) == UNION {[1..k -> S] : k \in 0..n}

\* One word of each item type (and is an itemDefault word).
Vocabulary ==
    {w_zero, w_five, w_twelve, w_forty, w_hundred, w_thousand,
     w_dollars, w_cents, w_and}

\* Every input of at most MaxLen words of the vocabulary.
AllInputs == {Join(ws) : ws \in SeqsUpTo(Vocabulary, MaxLen)}

\* The words a dollar group or a cents group is made of: one number word of
\* each item type, and the ligature.
PartWords == {w_zero, w_five, w_twelve, w_forty, w_hundred, w_thousand, w_and}

\* Longest dollar group and longest cents group, in words, of the family of
\* split amounts.
MaxDollarWords == 2
MaxCentWords == 1

\* A dollars and B cents, for every dollar group A and cents group B.
SplitInputs ==
    {Join(A \o <<w_dollars, w_and>> \o B \o <<w_cents>>) :
        A \in SeqsUpTo(PartWords, MaxDollarWords) \ {<<>>},
        B \in SeqsUpTo(PartWords, MaxCentWords) \ {<<>>}}

ToUpperChar(c) ==
    IF \E i \in DOMAIN LowerCase : LowerCase[i] = c
    THEN UpperCase[CHOOSE i \in DOMAIN LowerCase : LowerCase[i] = c]
    ELSE c

\* A word as written: in lower case, capitalised, or in upper case.
Written(w, mode) ==
    CASE mode = "lower" -> w
      [] mode = "title" -> [i \in DOMAIN w |-> IF i = 1 THEN ToUpperChar(w[i]) ELSE w[i]]
      [] mode = "upper" -> [i \in DOMAIN w |-> ToUpperChar(w[i])]

RECURSIVE JoinWith(_, _)
\* The words of ws with seps[k] between the k-th word and the next.
JoinWith(ws, seps) ==
    IF Len(ws) = 1 THEN ws[1]
    ELSE ws[1] \o seps[1] \o JoinWith(Tail(ws), Tail(seps))

\* Longest input, in words, of the family of punctuated inputs.
MaxNormWords == 2

Separators == {<<" ">>, <<"-">>, <<",">>, <<",", " ">>}
Modes == {"lower", "title", "upper"}

\* Inputs written with hyphens, commas and capitals: the words of the
\* vocabulary, every word written in the same way and every gap filled by
\* the same separator.
NormInputs ==
    UNION {{JoinWith([k \in 1..n |-> Written(ws[k], mode)], [k \in 1..(n - 1) |-> sep]) :
                ws \in [1..n -> Vocabulary],
                sep \in Separators,
                mode \in Modes} : n \in 1..MaxNormWords}

\* The word the lexicon gives the value v.
UnitWord(v) == CHOOSE w \in DOMAIN singleNumbers : singleNumbers[w] = v
TeenWord(v) == CHOOSE w \in DOMAIN directNumbers : directNumbers[w] = v
TensWord(v) == CHOOSE w \in DOMAIN tenPrefixNumbers : tenPrefixNumbers[w] = v

\* The canonical English phrase of r in 0..99 (nothing for 0).
Below100(r) ==
    IF r = 0 THEN <<>>
    ELSE IF r < 10 THEN <<UnitWord(r)>>
    ELSE IF r < 20 THEN <<TeenWord(r)>>
    ELSE <<TensWord(r - (r % 10))>> \o (IF r % 10 = 0 THEN <<>> ELSE <<UnitWord(r % 10)>>)

\* The canonical English phrase of a group g in 1..999, with the ligature
\* after hundred when ligH.
GroupWords(g, ligH) ==
    LET h == g \div 100
        r == g % 100
    IN  (IF h = 0 THEN <<>> ELSE <<UnitWord(h), w_hundred>>)
        \o (IF h > 0 /\ r > 0 /\ ligH THEN <<w_and>> ELSE <<>>)
        \o Below100(r)

\* The scale word of the second, third and fourth group from the right.
ScaleWords == <<w_thousand, w_million, w_billion>>

RECURSIVE Phrase(_, _, _)
\* The canonical English phrase of the number whose groups of three digits
\* are gs, most significant first, with the ligature after hundred when
\* ligH and after a scale word that more words follow when ligS.
Phrase(gs, ligH, ligS) ==
    IF gs = <<>> THEN <<>>
    ELSE LET rest == Phrase(Tail(gs), ligH, ligS)
         IN  IF Head(gs) = 0 THEN rest
             ELSE GroupWords(Head(gs), ligH)
                  \o (IF Len(gs) = 1 THEN <<>> ELSE <<ScaleWords[Len(gs) - 1]>>)
                  \o (IF Len(gs) > 1 /\ ligS /\ rest # <<>> THEN <<w_and>> ELSE <<>>)
                  \o rest

\* Number of groups of three digits of the numbers of the canonical family.
MaxGroups == 2

\* The groups the canonical family is built from.
GroupValues == {0, 4, 16, 30, 33, 105, 680, 999}

CanonNumbers ==
    {gs \in [1..MaxGroups -> GroupValues] : \E k \in 1..MaxGroups : gs[k] # 0}

\* phrase(n) dollars, for the numbers n of the canonical family.
CanonInput(gs, ligH, ligS) == Join(Phrase(gs, ligH, ligS) \o <<w_dollars>>)

CanonInputs ==
    {CanonInput(gs, ligH, ligS) : gs \in CanonNumbers, ligH \in BOOLEAN, ligS \in BOOLEAN}

\* The single-word inputs: every unit and every teen.
WordInputs == DOMAIN singleNumbers \cup DOMAIN directNumbers

\* The words the specification calls scale words.
NamedScales == {w_thousand, w_million, w_billion, w_trillion}

\* u scale dollars, for every unit u and every scale word.
ScaleInputs ==
    {Join(<<u, sc, w_dollars>>) : u \in DOMAIN singleNumbers, sc \in NamedScales}

\* Longest run of hundred and hundred ... of the family of large amounts.
MaxHundreds == 4

RECURSIVE Hundreds(_)
\* hundred and hundred ... and hundred, n times hundred.
Hundreds(n) ==
    IF n = 1 THEN <<w_hundred>> ELSE <<w_hundred, w_and>> \o Hundreds(n - 1)

\* u hundred and hundred ... [scale] dollars.
LargeInputs ==
    {Join(<<u>> \o Hundreds(n) \o sc \o <<w_dollars>>) :
        u \in {w_one, w_nine},
        n \in 1..MaxHundreds,
        sc \in {<<>>} \cup {<<w>> : w \in DOMAIN largeNumbers}}

\* Longest cents group, in words, of the family of amounts after one dollar.
MaxCentGroup == 2

\* one dollar B cents, for every cents group B (the empty one too).
AfterDollarInputs ==
    {Join(<<w_one, w_dollar>> \o B \o <<w_cents>>) : B \in SeqsUpTo(PartWords, MaxCentGroup)}

Inputs ==
    AllInputs \cup CanonInputs \cup WordInputs \cup ScaleInputs \cup LargeInputs
    \cup AfterDollarInputs

----------------------------------------------------------------------------
(* Parse, one call of a state function at a time.                          *)

NoRet == [value |-> <<>>, err |-> NoErr]

\* Parse is about to be called on an input of S.
InitOn(S) ==
    /\ s \in S
    /\ p = NoParser
    /\ state = "call"
    /\ ret = NoRet
    /\ calls = 0

Init == InitOn(Inputs)
InitSplit == InitOn(SplitInputs)
InitNorm == InitOn(NormInputs)

\* p := newParser(s); state := parse
CallParse ==
    /\ state = "call"
    /\ p' = newParser(s)
    /\ state' = "parse"
    /\ UNCHANGED <<s, ret, calls>>

\* state = state(p), for each state function the loop can hold.
RunParse ==
    /\ state = "parse"
    /\ p' = Store(parse(p).p)
    /\ state' = parse(p).fn
    /\ calls' = calls + 1
    /\ UNCHANGED <<s, ret>>

RunParseZero ==
    /\ state = "parseZero"
    /\ p' = Store(parseZero(p).p)
    /\ state' = parseZero(p).fn
    /\ calls' = calls + 1
    /\ UNCHANGED <<s, ret>>

RunParseSingle ==
    /\ state = "parseSingle"
    /\ p' = Store(parseSingle(p).p)
    /\ state' = parseSingle(p).fn
    /\ calls' = calls + 1
    /\ UNCHANGED <<s, ret>>

RunParseDirect ==
    /\ state = "parseDirect"
    /\ p' = Store(parseDirect(p).p)
    /\ state' = parseDirect(p).fn
    /\ calls' = calls + 1
    /\ UNCHANGED <<s, ret>>

RunParseTenPrefix ==
    /\ state = "parseTenPrefix"
    /\ p' = Store(parseTenPrefix(p).p)
    /\ state' = parseTenPrefix(p).fn
    /\ calls' = calls + 1
    /\ UNCHANGED <<s, ret>>

RunParseHundred ==
    /\ state = "parseHundred"
    /\ p' = Store(parseHundred(p).p)
    /\ state' = parseHundred(p).fn
    /\ calls' = calls + 1
    /\ UNCHANGED <<s, ret>>

RunParseLarge ==
    /\ state = "parseLarge"
    /\ p' = Store(parseLarge(p).p)
    /\ state' = parseLarge(p).fn
    /\ calls' = calls + 1
    /\ UNCHANGED <<s, ret>>

RunParseDollars ==
    /\ state = "parseDollars"
    /\ p' = Store(parseDollars(p).p)
    /\ state' = parseDollars(p).fn
    /\ calls' = calls + 1
    /\ UNCHANGED <<s, ret>>

RunParseCents ==
    /\ state = "parseCents"
    /\ p' = Store(parseCents(p).p)
    /\ state' = parseCents(p).fn
    /\ calls' = calls + 1
    /\ UNCHANGED <<s, ret>>

RunParseDefault ==
    /\ state = "parseDefault"
    /\ p' = Store(parseDefault(p).p)
    /\ state' = parseDefault(p).fn
    /\ calls' = calls + 1
    /\ UNCHANGED <<s, ret>>

\* The loop has ended: Parse returns.
ParseReturn ==
    /\ state = "nil"
    /\ ret' = Return(p)
    /\ state' = "returned"
    /\ UNCHANGED <<s, p, calls>>

Next ==
    \/ CallParse
    \/ RunParse
    \/ RunParseZero
    \/ RunParseSingle
    \/ RunParseDirect
    \/ RunParseTenPrefix
    \/ RunParseHundred
    \/ RunParseLarge
    \/ RunParseDollars
    \/ RunParseCents
    \/ RunParseDefault
    \/ ParseReturn

Spec == Init /\ [][Next]_vars

\* Parse on the split amounts, and on the punctuated inputs.
SpecSplit == InitSplit /\ [][Next]_vars
SpecNorm == InitNorm /\ [][Next]_vars

----------------------------------------------------------------------------
(* Properties.                                                             *)

\* Parse has returned.
Returned == state = "returned"

\* The words the lexicon gives a number to, zero, hundred and the ligature.
IsNumberWord(w) ==
    \/ w \in {w_zero, w_hundred, w_and}
    \/ w \in DOMAIN singleNumbers \cup DOMAIN directNumbers
    \/ w \in DOMAIN tenPrefixNumbers \cup DOMAIN largeNumbers

\* The places d of the word sequence ws where ws reads A dollars and B cents
\* with A = ws[1..d-1] and B = ws[d+2..Len(ws)-1] non-empty and free of markers.
SplitPlaces(ws) ==
    {d \in 2..(Len(ws) - 3) :
        /\ ws[d] = w_dollars
        /\ ws[d + 1] = w_and
        /\ ws[Len(ws)] = w_cents
        /\ \A k \in (1..(d - 1)) \cup ((d + 2)..(Len(ws) - 1)) : IsNumberWord(ws[k])}

\* C2: the currency split is compositional.  When the input is
\* A dollars and B cents, Parse(A dollars) returns x and Parse(B cents)
\* returns y, both without error, then Parse returns x + y without error.
C2_SplitCompositional ==
    Returned =>
        \A d \in SplitPlaces(Fields(s)) :
            LET ws == Fields(s)
                x == Parse(Join(SubSeq(ws, 1, d - 1) \o <<w_dollars>>))
                y == Parse(Join(SubSeq(ws, d + 2, Len(ws) - 1) \o <<w_cents>>))
            IN  (s = Join(ws) /\ x.err = NoErr /\ y.err = NoErr) =>
                    ret = [value |-> AsInt(Plus(x.value, y.value)), err |-> NoErr]

\* C2 witness: forty five dollars and twelve cents has returned 4512, the
\* sum of the 4500 of its dollar group and the 12 of its cents group.
C2_Witness ==
    /\ Returned
    /\ s = Join(<<w_forty, w_five, w_dollars, w_and, w_twelve, w_cents>>)
    /\ Parse(Join(<<w_forty, w_five, w_dollars>>)) = [value |-> FromNat(4500), err |-> NoErr]
    /\ Parse(Join(<<w_twelve, w_cents>>)) = [value |-> FromNat(12), err |-> NoErr]
    /\ ret = [value |-> FromNat(4512), err |-> NoErr]

IsLetter(c) ==
    \E i \in DOMAIN LowerCase : c = LowerCase[i] \/ c = UpperCase[i]

SwapCase(c) == IF ToLowerChar(c) = c THEN ToUpperChar(c) ELSE ToLowerChar(c)

\* The inputs got from str by one cosmetic change at position i: the case
\* of a letter changed, a hyphen replaced by a space, a comma deleted.
Respelled(str, i) ==
    IF IsLetter(str[i]) THEN {[str EXCEPT ![i] = SwapCase(str[i])]}
    ELSE IF str[i] = "-" THEN {[str EXCEPT ![i] = " "]}
    ELSE IF str[i] = "," THEN {SubSeq(str, 1, i - 1) \o SubSeq(str, i + 1, Len(str))}
    ELSE {}

\* The same value, or an error in both cases.
SameOutcome(a, b) ==
    /\ (a.err = NoErr) <=> (b.err = NoErr)
    /\ a.err = NoErr => a.value = b.value

\* C10: normalization is value-neutral.  Changing the case of any letter of
\* the input, replacing any hyphen by a space or deleting any comma gives an
\* input on which Parse returns the same outcome.
C10_NormalizationNeutral ==
    Returned =>
        \A i \in DOMAIN s : \A t \in Respelled(s, i) : SameOutcome(Parse(t), ret)

\* C10 witness: Forty-Dollars has returned 4000, as forty dollars does.
C10_Witness ==
    /\ Returned
    /\ s = <<"F","o","r","t","y","-","D","o","l","l","a","r","s">>
    /\ ret = [value |-> FromNat(4000), err |-> NoErr]
    /\ Parse(Join(<<w_forty, w_dollars>>)) = ret

\* The number whose groups of three digits are gs, most significant first.
RECURSIVE GroupsValue(_)
GroupsValue(gs) ==
    IF gs = <<>> THEN <<>>
    ELSE Plus(Times(GroupsValue(SubSeq(gs, 1, Len(gs) - 1)), FromNat(1000)),
              FromNat(gs[Len(gs)]))

\* C1: for every n written as its canonical English phrase, with or without
\* the ligature after hundred and after a scale word, Parse(phrase(n) dollars)
\* returns n * 100 and no error.
C1_CanonicalPhrase ==
    (Returned /\ s \in CanonInputs) =>
        \A gs \in CanonNumbers : \A ligH \in BOOLEAN, ligS \in BOOLEAN :
            s = CanonInput(gs, ligH, ligS) =>
                ret = [value |-> Times(GroupsValue(gs), FromNat(100)), err |-> NoErr]

\* C3: on the single-word input w, a unit or a teen, Parse returns the
\* weight of w and no error.
C3_SingleWord ==
    Returned =>
        /\ \A w \in DOMAIN singleNumbers :
              s = w => ret = [value |-> FromNat(singleNumbers[w]), err |-> NoErr]
        /\ \A w \in DOMAIN directNumbers :
              s = w => ret = [value |-> FromNat(directNumbers[w]), err |-> NoErr]

\* The types of the items, in order.
Types == [k \in DOMAIN p.items |-> p.items[k].typ]

QuantityTypes == {"itemSingle", "itemDirect", "itemTenPrefix"}

\* C4: Parse returns an error whenever the input does not begin with a zero,
\* unit, teen or tens word (the empty input, an unrecognized word, and,
\* hundred, a scale word, a marker), whatever follows.
C4_BadStartRejected ==
    (Returned /\ (Types = <<>> \/ Types[1] \notin QuantityTypes \cup {"itemZero"}))
        => ret.err # NoErr

\* A unit, teen or tens word directly follows a completed group (a unit or
\* a teen), or a tens word is followed by a teen or a tens word.
AdjacentQuantities ==
    \E k \in 1..(Len(Types) - 1) :
        \/ Types[k] \in {"itemSingle", "itemDirect"} /\ Types[k + 1] \in QuantityTypes
        \/ Types[k] = "itemTenPrefix" /\ Types[k + 1] \in {"itemDirect", "itemTenPrefix"}

\* C5: two adjacent quantity words are always rejected, with or without a
\* marker after them.
C5_AdjacentRejected ==
    (Returned /\ AdjacentQuantities) => ret.err # NoErr

\* The ligature is the last word, or is followed by anything but a unit,
\* teen or tens word, or directly follows a unit word.
MisplacedAnd ==
    \E k \in DOMAIN p.items :
        /\ p.items[k].key = w_and
        /\ \/ k = Len(Types)
           \/ k < Len(Types) /\ Types[k + 1] \notin QuantityTypes
           \/ k > 1 /\ Types[k - 1] = "itemSingle"

\* C6: Parse returns an error for every input in which and is not followed
\* immediately by a unit, teen or tens word, or directly follows a unit word.
C6_LigatureRejected ==
    (Returned /\ MisplacedAnd) => ret.err # NoErr

\* No dollars or cents marker lies between the items j and k.
SameGroup(j, k) ==
    \A m \in DOMAIN Types :
        ((j < m /\ m < k) \/ (k < m /\ m < j)) => Types[m] \notin {"itemDollars", "itemCents"}

\* zero shares its dollar group or cents group with another number word, or
\* is followed by something else than a marker.
ZeroCombined ==
    \E k \in DOMAIN Types :
        /\ Types[k] = "itemZero"
        /\ \/ \E j \in DOMAIN Types :
                /\ j # k
                /\ Types[j] \in QuantityTypes \cup {"itemZero", "itemHundred", "itemLarge"}
                /\ SameGroup(j, k)
           \/ k < Len(Types) /\ Types[k + 1] \notin {"itemDollars", "itemCents"}

\* C7: zero never combines.  Parse(zero) returns 0, and every input in which
\* zero stands in a group with another number word, or is followed by
\* anything but a marker, is rejected.
C7_ZeroNeverCombines ==
    Returned =>
        /\ s = w_zero => ret = [value |-> <<>>, err |-> NoErr]
        /\ ZeroCombined => ret.err # NoErr

\* The weight the specification gives each scale word.
ScaleWeight(w) ==
    CASE w = w_thousand -> FromNat(1000)
      [] w = w_million -> FromNat(1000000)
      [] w = w_billion -> FromNat(1000000000)
      [] w = w_trillion -> Times(FromNat(1000000), FromNat(1000000))

\* C8: for every unit u and each of the scale words thousand, million,
\* billion and trillion, of weight W, Parse(u scale dollars) returns
\* u * W * 100 and no error.
C8_FourScaleWords ==
    Returned =>
        \A u \in DOMAIN singleNumbers : \A sc \in NamedScales :
            s = Join(<<u, sc, w_dollars>>) =>
                ret = [value |-> Times(Times(FromNat(singleNumbers[u]), ScaleWeight(sc)),
                                       FromNat(100)),
                       err |-> NoErr]

StateFunctions ==
    {"parse", "parseZero", "parseSingle", "parseDirect", "parseTenPrefix",
     "parseHundred", "parseLarge", "parseDollars", "parseCents", "parseDefault"}

RECURSIVE ExactLoop(_, _)
\* The loop of Parse in unbounded integers: nothing is reduced on storing.
ExactLoop(fn, q) ==
    IF fn = "nil" THEN q
    ELSE LET r == Call(fn, q) IN ExactLoop(r.fn, r.p)

\* dollars * 100 + cents in unbounded integers.
ExactAmount(q) == Plus(Times(q.dollars, FromNat(100)), q.cents)

\* C9: Parse never returns a wrapped value.  A state function whose exact
\* result (prev, sum, dollars, cents) leaves the int range sets the error,
\* so does an amount dollars * 100 + cents that leaves it, and a value
\* returned without error is the exact amount of the input.
C9_NoWrappedValue ==
    /\ state \in StateFunctions =>
          LET r == Call(state, p)
          IN  r.p.err = NoErr =>
                  /\ FitsInt(r.p.prev) /\ FitsInt(r.p.sum)
                  /\ FitsInt(r.p.dollars) /\ FitsInt(r.p.cents)
    /\ (state = "nil" /\ p.err = NoErr) =>
          FitsInt(Times(p.dollars, FromNat(100))) /\ FitsInt(ExactAmount(p))
    /\ (Returned /\ ret.err = NoErr) =>
          ret.value = ExactAmount(ExactLoop("parse", newParser(s)))

\* C11: fail-fast with no partial result.  The transition that sets the
\* error ends the loop, once the error is set the parser is not touched
\* again (no further state function runs, no token is consumed, the error is
\* not set a second time), and a Parse that returns an error returns 0.
C11_FailFast ==
    [][/\ (p.err = NoErr /\ p'.err # NoErr) => state' = "nil"
       /\ p.err # NoErr => (p' = p /\ state' = "returned")
       /\ (state' = "returned" /\ ret'.err # NoErr) => ret'.value = <<>>]_vars

\* C11 witness: Parse has returned an error and 0 although dollars had been
\* accumulated (five dollars hundred).
C11_Witness ==
    /\ Returned
    /\ ret.err # NoErr
    /\ ret.value = <<>>
    /\ p.dollars = FromNat(5)
    /\ p.pos < Len(p.items)

\* C12: once a dollars marker has been consumed the dollar total is frozen.
\* After parseDollars has run, no step changes the field dollars, whatever
\* tokens follow.
C12_DollarsFrozen ==
    [][p.dollarsDone => p'.dollars = p.dollars]_vars

\* C13: AfterCents is terminal and strict.  Every input in which a cents
\* marker is followed by at least one further token is rejected.
C13_CentsIsLast ==
    (Returned /\ \E k \in 1..(Len(Types) - 1) : Types[k] = "itemCents")
        => ret.err # NoErr

\* C14: after a dollars marker the cents group is parsed by the grammar of
\* the start.  For every marker-free B, Parse(one dollar B cents) returns an
\* error exactly when Parse(B cents) does, and otherwise 100 more.
C14_CentsGroupFromStart ==
    (Returned /\ s \in AfterDollarInputs) =>
        LET ws == Fields(s)
            alone == Parse(Join(SubSeq(ws, 3, Len(ws))))
        IN  /\ (ret.err = NoErr) <=> (alone.err = NoErr)
            /\ ret.err = NoErr => ret.value = AsInt(Plus(alone.value, FromNat(100)))

\* The number a word stands for (0 for the ligature and for zero).
WordValue(w) ==
    IF w \in DOMAIN singleNumbers THEN singleNumbers[w]
    ELSE IF w \in DOMAIN directNumbers THEN directNumbers[w]
    ELSE IF w \in DOMAIN tenPrefixNumbers THEN tenPrefixNumbers[w]
    ELSE 0

RECURSIVE GroupValue(_)
\* The value of the words of one group: hundred multiplies what precedes
\* it, every other number word adds its value.
GroupValue(ws) ==
    IF ws = <<>> THEN 0
    ELSE LET before == GroupValue(SubSeq(ws, 1, Len(ws) - 1))
             w == ws[Len(ws)]
         IN  IF w = w_hundred THEN before * 100 ELSE before + WordValue(w)

\* The words consumed since the previous scale word or the start of the
\* input, when the item at the cursor is the scale word parseLarge consumes.
PendingGroup ==
    LET k == p.pos + 1
        scales == {j \in 1..(k - 1) : Types[j] = "itemLarge"}
        from == IF scales = {} THEN 1
                ELSE 1 + CHOOSE j \in scales : \A m \in scales : m <= j
    IN  [n \in 1..(k - from) |-> p.items[from + n - 1].key]

\* C15: the accumulator invariant.  Whenever parseLarge is about to consume
\* a scale word of a canonical phrase, prev is the value of all the number
\* words consumed since the previous scale word (105 for one hundred five),
\* and parseLarge adds exactly that value times the scale weight to sum and
\* leaves prev 0.
C15_GroupInPrev ==
    (state = "parseLarge" /\ s \in CanonInputs) =>
        LET g == FromNat(GroupValue(PendingGroup))
            r == parseLarge(p).p
        IN  /\ p.prev = g
            /\ r.sum = Plus(p.sum, Times(g, FromNat(p.items[p.pos + 1].val)))
            /\ r.prev = <<>>


\* The input ends with a tens word, or with hundred or a scale word that
\* follows a unit, teen or tens word.
EndsOpen ==
    LET n == Len(Types)
    IN  /\ n >= 1
        /\ \/ Types[n] = "itemTenPrefix"
           \/ /\ Types[n] \in {"itemHundred", "itemLarge"}
              /\ n >= 2
              /\ Types[n - 1] \in QuantityTypes

\* C16: the end of the input is accepted after a tens word, after hundred
\* and after a scale word: Parse returns no error for an input that ends so.
\* Stated for the runs that consumed every word, where the only thing left
\* to reject is the end of the input.
C16_EndAccepted ==
    (Returned /\ EndsOpen /\ p.pos >= Len(p.items)) => ret.err = NoErr


\* The words of the input, as the parser holds them.
Words == [k \in DOMAIN p.items |-> p.items[k].key]

\* The places k where word k is hundred or a scale word and word k + 1 is a
\* unit, teen or tens word.
LigaturePlaces ==
    {k \in 1..(Len(Types) - 1) :
        /\ Types[k] \in {"itemHundred", "itemLarge"} \/ Words[k] \in NamedScales
        /\ Types[k + 1] \in QuantityTypes}

\* The words ws with and inserted after word k.
WithAnd(ws, k) == SubSeq(ws, 1, k) \o <<w_and>> \o SubSeq(ws, k + 1, Len(ws))

\* C17: the ligature is optional and value-neutral.  For every accepted
\* input, inserting and after a hundred or a scale word that a unit, teen or
\* tens word follows gives an input accepted with the same value; and the
\* step that consumes and leaves prev and sum as they were.
C17_LigatureNeutral ==
    /\ (Returned /\ ret.err = NoErr) =>
           \A k \in LigaturePlaces : Parse(Join(WithAnd(Words, k))) = ret
    /\ (state = "parseDefault" /\ peek(p).key = w_and) =>
           /\ parseDefault(p).p.prev = p.prev
           /\ parseDefault(p).p.sum = p.sum

\* five hundred five dollars is accepted as 50500, and so is five hundred
\* and five dollars.
C17_Witness ==
    /\ Returned
    /\ Words = <<w_five, w_hundred, w_five, w_dollars>>
    /\ ret = [value |-> FromNat(50500), err |-> NoErr]
    /\ Parse(Join(<<w_five, w_hundred, w_and, w_five, w_dollars>>)) = ret


\* A word that is in no table of the lexicon and names no currency.
w_of == <<"o","f">>

\* The input reads N dollars or N cents, N a non-empty sequence of number
\* words.
NumberThenMarker ==
    LET n == Len(Types)
    IN  /\ n >= 2
        /\ Types[n] \in {"itemDollars", "itemCents"}
        /\ \A k \in 1..(n - 1) :
               Types[k] \in QuantityTypes \cup {"itemZero", "itemHundred", "itemLarge"}

\* C18: an unrecognized word just before the marker is skipped.  For every
\* accepted input N dollars or N cents, the input with one unrecognized word
\* inserted before the marker is accepted with the same value.
C18_UnknownSkipped ==
    (Returned /\ ret.err = NoErr /\ NumberThenMarker) =>
        LET n == Len(Words)
        IN  Parse(Join(SubSeq(Words, 1, n - 1) \o <<w_of, Words[n]>>)) = ret


\* C19: Parse ends after a number of calls linear in the number of tokens.
\* Every state function but parse and parseCents moves the cursor pos
\* forward by at least one, no state function moves it back, and the loop
\* never makes more than len(items) + 2 calls (calls counts them, and every
\* call that does not return nil is followed by another one).
C19_LinearCalls ==
    [][/\ state \in StateFunctions => p'.pos >= p.pos
       /\ state \in StateFunctions \ {"parse", "parseCents"} => p'.pos >= p.pos + 1
       /\ calls' <= Len(p'.items) + 2]_vars

\* five hundred five dollars: parse and one call per word, the last one
\* returning nil with every word consumed.
C19_Witness ==
    /\ Returned
    /\ ret.err = NoErr
    /\ Len(p.items) = 4
    /\ p.pos = 4
    /\ calls = 5


\* The input holds a dollars marker or a cents marker.
HasMarker == \E k \in DOMAIN Types : Types[k] \in {"itemDollars", "itemCents"}

====
